---- MODULE Spec2Model ----
(***************************************************************************)
(* A model of the news pipeline: the keyword loader and the scraper loop   *)
(* of scraper.py, and the storage step of sheets.py.                       *)
(*                                                                         *)
(* Python strings are modelled as sequences of one-character strings, so   *)
(* that strip, lower, startswith, concatenation and the substring test     *)
(* `in` are computed, not assumed.  An optional value (None or a value) is *)
(* a record [some, val].                                                   *)
(***************************************************************************)
EXTENDS Integers, Sequences, FiniteSets, TLC

\* ------------------------------------------------------------------ bounds
\* the longest node sequence of a scrape run
MaxNodes == 3
\* the longest keyword list of a classification run
MaxKeywords == 2
\* the longest content of a keyword file found on disk
MaxFileLen == 3
\* the longest batch handed to store_articles
MaxBatch == 2
\* the number of store_articles calls of a run
MaxCalls == 3
\* the largest max_articles of a scrape run
MaxArticles == 3

\* ----------------------------------------------------------- optional values
None == [some |-> FALSE, val |-> <<>>]
Some(v) == [some |-> TRUE, val |-> v]

\* ------------------------------------------------------------------ strings
UpperAlpha == <<"A","B","C","D","E","F","G","H","I","J","K","L","M",
                "N","O","P","Q","R","S","T","U","V","W","X","Y","Z">>
LowerAlpha == <<"a","b","c","d","e","f","g","h","i","j","k","l","m",
                "n","o","p","q","r","s","t","u","v","w","x","y","z">>

\* str.lower() of one character
LowerChar(c) ==
    IF \E i \in 1..26 : UpperAlpha[i] = c
    THEN LowerAlpha[CHOOSE i \in 1..26 : UpperAlpha[i] = c]
    ELSE c

\* str.lower()
Lower(s) == [i \in 1..Len(s) |-> LowerChar(s[i])]

\* the characters str.strip() removes
Whitespace == {" ", "\n", "\t"}

\* str.strip(): leading and trailing whitespace removed
Strip(s) ==
    LET keep == {i \in 1..Len(s) : s[i] \notin Whitespace}
    IN  IF keep = {} THEN <<>>
        ELSE LET lo == CHOOSE i \in keep : \A j \in keep : i <= j
                 hi == CHOOSE i \in keep : \A j \in keep : j <= i
             IN  SubSeq(s, lo, hi)

\* s.startswith(p)
StartsWith(s, p) == Len(s) >= Len(p) /\ SubSeq(s, 1, Len(p)) = p

\* k in h (substring test; the empty string is in every string)
Contains(h, k) ==
    \E i \in 0..(Len(h) - Len(k)) : SubSeq(h, i + 1, i + Len(k)) = k

\* Python truthiness of an optional string: None and "" are falsy
Truthy(o) == o.some /\ o.val # <<>>

\* ------------------------------------------------------- scraper constants
\* base_url
BaseUrl == <<"h","t","t","p","s",":","/","/","g","r","o","u","n","d",".","n","e","w","s">>
Http == <<"h","t","t","p">>
Slash == <<"/">>
Unknown == <<"U","n","k","n","o","w","n">>
ConflictCategory == <<"I","s","r","a","e","l","-","H","a","m","a","s"," ",
                      "C","o","n","f","l","i","c","t">>
\* the hard-coded terms of the keyword scan
ConflictTerms == { <<"i","s","r","a","e","l">>, <<"h","a","m","a","s">>,
                   <<"w","a","r">>, <<"i","s","r","a","e","l","i">> }
\* the built-in default keyword list of load_keywords
DefaultKeywords == << <<"I","r","a","n">>, <<"I","s","r","a","e","l">>,
                      <<"H","a","m","a","s">>, <<"w","a","r">>,
                      <<"c","l","i","m","a","t","e">>, <<"U","K">>, <<"U","S">>,
                      <<"I","s","r","a","e","l","i">> >>

\* ------------------------------------------------------------------ state
VARIABLES
    keywords,        \* scrape_ground_news: the keywords argument
    max_articles,    \* scrape_ground_news: the max_articles argument
    source_type,     \* scrape_ground_news: the source_type argument
    scrape_date,     \* scrape_ground_news: the date stamped on every record
    articles,        \* the article nodes soup.select returns for the page
    index,           \* the number of loop iterations completed
    news_data,       \* the list of records built so far
    seen_urls,       \* the set seen_urls
    seen_headlines,  \* the set seen_headlines
    outcomes,        \* history: what each loop iteration did, in order
    error,           \* history: the failure the run logged outside the loop
    driver,          \* the browser: "none", "running", "quit"
    quits,           \* the number of driver.quit() calls
    pc,              \* scrape_ground_news: "start", "page", "loop", "done"
    page_gets,       \* the number of driver.get calls
    returned,        \* what scrape_ground_news returned (None: nothing yet)
    fs_file,         \* load_keywords: the file at file_path (None: absent)
    fs_dir,          \* load_keywords: the directory of file_path exists
    path_in_config,  \* load_keywords: file_path lies in the directory config
    io_fault,        \* load_keywords: the call that raises an I/O error
    kw_existed,      \* history: the file existed when load_keywords was called
    kw_error,        \* history: the try block of load_keywords raised
    kw_result,       \* what load_keywords returned (None: nothing)
    kw_pc,           \* load_keywords: "start", "done"
    sheet,           \* the worksheet Articles: None, or its rows in order
    st_prev,         \* history: the store_articles call before the last one
    st_last,         \* history: the last store_articles call
    st_calls,        \* the number of store_articles calls so far
    sum_in,          \* summarize_articles: the articles argument
    sum_out,         \* summarize_articles: the list summarized_articles
    sum_log,         \* history: what each iteration of summarize_articles did
    sum_pc,          \* summarize_articles: "loop", "done"
    ex_key,          \* generate_explainer_script: OPENAI_API_KEY is set
    ex_creds,        \* generate_explainer_script: the credentials file exists
    ex_attempts,     \* fetch_sheets_data: the number of attempts made
    ex_log,          \* history: how each attempt of fetch_sheets_data ended
    ex_result,       \* the rows fetch_sheets_data returned (None: no result)
    ex_api_calls,    \* the number of chat.completions.create calls
    ex_writes,       \* the number of times explainer_script.txt was written
    ex_returned,     \* what generate_explainer_script returned (None: nothing yet)
    ex_pc,           \* generate_explainer_script: "start", "fetch", "data",
                     \* "generate", "write", "done"
    main_creds,      \* main: GOOGLE_CREDENTIALS_PATH is set and the file exists
    main_log,        \* history: the stages main has invoked, in order
    main_error,      \* history: main's handler caught an exception
    main_pc          \* main: "idle", "start", the stage running, "done"

vars == <<keywords, max_articles, source_type, scrape_date, articles, index,
          news_data, seen_urls, seen_headlines, outcomes, error, driver, quits, page_gets,
          returned, pc,
          page_gets, returned, fs_file, fs_dir, path_in_config, io_fault, kw_existed, kw_error,
          kw_result, kw_pc, sheet, st_prev, st_last, st_calls,
          sum_in, sum_out, sum_log, sum_pc, ex_key, ex_creds, ex_attempts, ex_log,
          ex_result, ex_api_calls, ex_writes, ex_returned, ex_pc,
          main_creds, main_log, main_error, main_pc>>

\* the state of load_keywords
kwVars == <<fs_file, fs_dir, path_in_config, io_fault, kw_existed, kw_error,
            kw_result, kw_pc>>

\* the state of store_articles
storeVars == <<sheet, st_prev, st_last, st_calls>>

\* the state of summarize_articles
sumVars == <<sum_in, sum_out, sum_log, sum_pc>>

\* the state of generate_explainer_script
exVars == <<ex_key, ex_creds, ex_attempts, ex_log, ex_result, ex_api_calls, ex_writes,
            ex_returned, ex_pc>>

\* the state of main
mainVars == <<main_creds, main_log, main_error, main_pc>>

\* the arguments of a scrape run and the page it reads
scrapeInputs == <<keywords, max_articles, source_type, scrape_date, articles>>
\* the loop's own state
loopState == <<index, news_data, seen_urls, seen_headlines, outcomes>>

\* -------------------------------------------------------- scraper: helpers
Min(a, b) == IF a <= b THEN a ELSE b
Max(a, b) == IF a >= b THEN a ELSE b

\* a faulty variant: the slice is dropped, every node is examined
MutExamined(nodes, n) == nodes

\* articles[:max_articles]
Examined(nodes, n) ==
    IF n >= 0 THEN SubSeq(nodes, 1, Min(n, Len(nodes)))
    ELSE SubSeq(nodes, 1, Max(Len(nodes) + n, 0))

\* select_one('h2:not(.hidden), h4') or select_one('h2, h4'), then .text.strip()
ExtractHeadline(node) ==
    LET headline_elem == IF node.h_primary.some THEN node.h_primary ELSE node.h_fallback
    IN  IF headline_elem.some THEN Some(Strip(headline_elem.val)) ELSE None

\* headline in seen_headlines
SeenHeadline(headline, seen) == headline \in seen

\* a faulty variant: an href that is neither relative nor http is kept
MutResolveUrl(href) ==
    LET url == IF Truthy(href) THEN href ELSE None
    IN  IF Truthy(url) /\ StartsWith(url.val, Slash) THEN Some(BaseUrl \o url.val)
        ELSE url

\* the URL of a node: the href resolved against base_url, or None
ResolveUrl(href) ==
    LET url == IF Truthy(href) THEN href ELSE None
    IN  IF Truthy(url) /\ StartsWith(url.val, Slash) THEN Some(BaseUrl \o url.val)
        ELSE IF Truthy(url) /\ ~StartsWith(url.val, Http) THEN None
        ELSE url

\* a faulty variant: the duplicate-url test is dropped
MutSeenUrl(url, seen) == FALSE

\* url in seen_urls
SeenUrl(url, seen) == url \in seen

\* the keyword loop from position i on, matching_keyword being m so far
RECURSIVE ScanFrom(_, _, _, _)
ScanFrom(kws, i, headline_lower, m) ==
    IF i > Len(kws) THEN m
    ELSE IF Contains(headline_lower, Lower(kws[i]))
         THEN IF Lower(kws[i]) \in ConflictTerms
              THEN Some(ConflictCategory)
              ELSE IF ~Truthy(m)
                   THEN ScanFrom(kws, i + 1, headline_lower, Some(kws[i]))
                   ELSE ScanFrom(kws, i + 1, headline_lower, m)
         ELSE ScanFrom(kws, i + 1, headline_lower, m)

\* a faulty variant: the scan stops at the first keyword found in the headline
RECURSIVE MutScanFirst(_, _, _)
MutScanFirst(kws, i, headline_lower) ==
    IF i > Len(kws) THEN None
    ELSE IF Contains(headline_lower, Lower(kws[i]))
         THEN IF Lower(kws[i]) \in ConflictTerms
              THEN Some(ConflictCategory)
              ELSE Some(kws[i])
         ELSE MutScanFirst(kws, i + 1, headline_lower)
MutKeywordScan(headline, kws) == MutScanFirst(kws, 1, Lower(headline))

\* matching_keyword after the keyword loop
KeywordScan(headline, kws) == ScanFrom(kws, 1, Lower(headline), None)

\* source_elem.text.strip() of the first selector whose element exists
SourceOf(first, second) ==
    IF first.some THEN Strip(first.val)
    ELSE IF second.some THEN Strip(second.val)
    ELSE Unknown

\* the source of a node under source_type
ExtractSource(node, stype) ==
    IF stype = "coverage"
    THEN SourceOf(node.src_div_span, node.src_span)
    ELSE SourceOf(node.src_span, node.src_div_span)

\* what one loop iteration does to the two sets and the list
Skipped(kind, seenH, seenU) ==
    [kind |-> kind, seenH |-> seenH, seenU |-> seenU, append |-> <<>>]

\* the body of the loop over the article nodes, for one node
ProcessArticle(node, kws, stype, date, seenH, seenU) ==
    LET headline == ExtractHeadline(node) IN
    IF node.raises = "headline" THEN Skipped("raised", seenH, seenU)
    ELSE IF ~Truthy(headline) THEN Skipped("no_headline", seenH, seenU)
    ELSE IF SeenHeadline(headline.val, seenH) THEN Skipped("dup_headline", seenH, seenU)
    ELSE
    LET seenH1 == seenH \cup {headline.val}
        url == ResolveUrl(node.href) IN
    IF node.raises = "url" THEN Skipped("raised", seenH1, seenU)
    ELSE IF ~Truthy(url) THEN Skipped("no_url", seenH1, seenU)
    ELSE IF SeenUrl(url.val, seenU) THEN Skipped("dup_url", seenH1, seenU)
    ELSE
    LET seenU1 == seenU \cup {url.val}
        matching_keyword == KeywordScan(headline.val, kws) IN
    IF node.raises = "keyword" THEN Skipped("raised", seenH1, seenU1)
    ELSE IF ~Truthy(matching_keyword) THEN Skipped("no_keyword", seenH1, seenU1)
    ELSE IF node.raises = "source" THEN Skipped("raised", seenH1, seenU1)
    ELSE [kind |-> "appended", seenH |-> seenH1, seenU |-> seenU1,
          append |-> << [headline |-> headline.val,
                         source |-> ExtractSource(node, stype),
                         url |-> url.val,
                         category |-> matching_keyword.val,
                         date |-> date] >>]

\* a faulty variant: the exception leaves the loop and ends the run
MutExceptHandler == "done"

\* where the loop stands after `except Exception: log; continue`
ExceptHandler == "loop"

\* -------------------------------------------------------- scraper: actions
\* webdriver.Chrome(...) succeeds
DriverStarts ==
    /\ pc = "start"
    /\ pc' = "page"
    /\ driver' = "running"
    /\ UNCHANGED <<scrapeInputs, loopState, error, quits, page_gets, returned, kwVars,
                   storeVars, sumVars, exVars, mainVars>>

\* webdriver.Chrome(...) raises: return news_data
DriverFails ==
    /\ pc = "start"
    /\ pc' = "done"
    /\ error' = "driver"
    /\ returned' = Some(news_data)
    /\ UNCHANGED <<scrapeInputs, loopState, driver, quits, page_gets, kwVars, storeVars,
                   sumVars, exVars, mainVars>>

\* driver.get, the wait and the scrolling succeed; the page is parsed
PageLoads ==
    /\ pc = "page"
    /\ pc' = "loop"
    /\ page_gets' = page_gets + 1
    /\ UNCHANGED <<scrapeInputs, loopState, error, driver, quits, returned, kwVars,
                   storeVars, sumVars, exVars, mainVars>>

\* a faulty variant: the page failure returns without the finally clause
MutPageFails ==
    /\ pc = "page"
    /\ pc' = "done"
    /\ error' = "page"
    /\ page_gets' = page_gets + 1
    /\ returned' = Some(news_data)
    /\ UNCHANGED <<scrapeInputs, loopState, driver, quits, kwVars, storeVars, sumVars,
                   exVars, mainVars>>

\* driver.get or the wait raises: the outer handler logs, finally quits
PageFails ==
    /\ pc = "page"
    /\ pc' = "done"
    /\ error' = "page"
    /\ driver' = "quit"
    /\ quits' = quits + 1
    /\ page_gets' = page_gets + 1
    /\ returned' = Some(news_data)
    /\ UNCHANGED <<scrapeInputs, loopState, kwVars, storeVars, sumVars, exVars, mainVars>>

\* one iteration of the loop over articles[:max_articles]
ProcessNode ==
    /\ pc = "loop"
    /\ index < Len(Examined(articles, max_articles))
    /\ LET r == ProcessArticle(Examined(articles, max_articles)[index + 1], keywords,
                               source_type, scrape_date, seen_headlines, seen_urls)
       IN  /\ seen_headlines' = r.seenH
           /\ seen_urls' = r.seenU
           /\ news_data' = news_data \o r.append
           /\ outcomes' = Append(outcomes, r.kind)
           /\ pc' = IF r.kind = "raised" THEN ExceptHandler ELSE "loop"
    /\ index' = index + 1
    /\ UNCHANGED <<scrapeInputs, error, driver, quits, page_gets, returned, kwVars,
                   storeVars, sumVars, exVars, mainVars>>

\* the loop is exhausted: finally driver.quit(), return news_data
Finish ==
    /\ pc = "loop"
    /\ index = Len(Examined(articles, max_articles))
    /\ pc' = "done"
    /\ driver' = "quit"
    /\ quits' = quits + 1
    /\ returned' = Some(news_data)
    /\ UNCHANGED <<scrapeInputs, loopState, error, page_gets, kwVars, storeVars, sumVars,
                   exVars, mainVars>>

NextScrape ==
    \/ DriverStarts
    \/ DriverFails
    \/ PageLoads
    \/ PageFails
    \/ ProcessNode
    \/ Finish

\* ------------------------------------------------------------ load_keywords
\* a faulty variant: the default terms are written on one line
MutDefaultFileText ==
    <<"I","r","a","n"," ","I","s","r","a","e","l"," ","H","a","m","a","s"," ",
      "w","a","r"," ","c","l","i","m","a","t","e"," ","U","K"," ","U","S"," ",
      "I","s","r","a","e","l","i">>

\* the text load_keywords writes into a new keyword file
DefaultFileText ==
    <<"I","r","a","n","\n","I","s","r","a","e","l","\n","H","a","m","a","s","\n",
      "w","a","r","\n","c","l","i","m","a","t","e","\n","U","K","\n","U","S","\n",
      "I","s","r","a","e","l","i">>

\* the lines a text file yields when iterated, without their line ends
RECURSIVE Lines(_)
Lines(text) ==
    IF text = <<>> THEN <<>>
    ELSE IF \E i \in 1..Len(text) : text[i] = "\n"
         THEN LET nl == CHOOSE i \in 1..Len(text) :
                           text[i] = "\n" /\ \A j \in 1..(i - 1) : text[j] # "\n"
              IN  <<SubSeq(text, 1, nl - 1)>> \o Lines(SubSeq(text, nl + 1, Len(text)))
         ELSE <<text>>

\* the non-empty strings of a sequence, in order
RECURSIVE NonEmpty(_)
NonEmpty(ls) ==
    IF ls = <<>> THEN <<>>
    ELSE IF Head(ls) # <<>> THEN <<Head(ls)>> \o NonEmpty(Tail(ls))
         ELSE NonEmpty(Tail(ls))

\* [line.strip() for line in f if line.strip()]
ParseKeywords(text) ==
    LET ls == Lines(text)
    IN  NonEmpty([i \in 1..Len(ls) |-> Strip(ls[i])])

\* what the except clause of load_keywords returns
OnLoadError == DefaultKeywords

\* the try block of load_keywords: the file it leaves, whether the directory
\* exists afterwards, and the list it returns or the error it raises
TryLoad(file, dir, inConfig, fault) ==
    LET raised(f, d) == [file |-> f, dir |-> d, error |-> TRUE, value |-> <<>>]
        read(f, d) ==
            IF fault = "read" THEN raised(f, d)
            ELSE [file |-> f, dir |-> d, error |-> FALSE, value |-> ParseKeywords(f.val)]
    IN  IF file.some THEN read(file, dir)
        ELSE IF fault = "makedirs" THEN raised(file, dir)
        ELSE LET dir1 == dir \/ inConfig IN
             IF fault = "open" \/ ~dir1 THEN raised(file, dir1)
             ELSE IF fault = "write" THEN raised(Some(<<>>), dir1)
             ELSE read(Some(DefaultFileText), dir1)

\* load_keywords(file_path)
LoadKeywords ==
    /\ kw_pc = "start"
    /\ LET r == TryLoad(fs_file, fs_dir, path_in_config, io_fault)
       IN  /\ fs_file' = r.file
           /\ fs_dir' = r.dir
           /\ kw_error' = r.error
           /\ kw_result' = IF r.error THEN Some(OnLoadError) ELSE Some(r.value)
    /\ kw_existed' = fs_file.some
    /\ kw_pc' = "done"
    /\ UNCHANGED <<path_in_config, io_fault, scrapeInputs, loopState, error, driver,
                   quits, page_gets, returned, pc, storeVars, sumVars, exVars, mainVars>>

NextKeywords == LoadKeywords

\* load_keywords is not running
KeywordsIdle ==
    /\ fs_file = None
    /\ fs_dir = FALSE
    /\ path_in_config = TRUE
    /\ io_fault = "none"
    /\ kw_existed = FALSE
    /\ kw_error = FALSE
    /\ kw_result = None
    /\ kw_pc = "done"

\* ----------------------------------------------------------- store_articles
\* a dict entry: the key is missing, or holds a value (None or a string)
Missing == [key |-> FALSE, val |-> None]
Entry(v) == [key |-> TRUE, val |-> v]
\* dict.get(key, default)
Get(entry, default) == IF entry.key THEN entry.val ELSE default

\* the text a cell holds once a value is written to it: None leaves it empty
Cell(v) == IF v.some THEN v.val ELSE ""

\* headers
Headers == <<"Headline", "Source", "URL", "Category", "Summary", "Timestamp">>

\* the row store_articles builds for an article
RowOf(article) ==
    << Cell(Get(article.headline, Some(""))),
       Cell(Get(article.source, Some(""))),
       Cell(Get(article.url, Some(""))),
       Cell(Get(article.category, Some(""))),
       Cell(Get(article.summary, Some("No summary available."))),
       Cell(Get(article.timestamp, Some(""))) >>

\* worksheet.col_values(col): the column's cells down to its last filled one
RECURSIVE ColValues(_, _)
ColValues(rows, col) ==
    IF rows = <<>> THEN <<>>
    ELSE IF rows[Len(rows)][col] = "" THEN ColValues(SubSeq(rows, 1, Len(rows) - 1), col)
         ELSE [i \in 1..Len(rows) |-> rows[i][col]]

\* set(worksheet.col_values(3)[1:]), as Python strings
ExistingUrls(rows) ==
    LET column == ColValues(rows, 3)
    IN  {Some(column[i]) : i \in 2..Len(column)}

\* the loop over the batch from position i on: the rows to append
RECURSIVE RowsToAppend(_, _, _)
RowsToAppend(batch, i, existing_urls) ==
    IF i > Len(batch) THEN <<>>
    ELSE IF Get(batch[i].url, None) \in existing_urls
         THEN RowsToAppend(batch, i + 1, existing_urls)
         ELSE <<RowOf(batch[i])>>
              \o RowsToAppend(batch, i + 1, existing_urls \cup {Get(batch[i].url, None)})

\* store_articles(articles, ...): the worksheet it leaves and what it returns
StoreOutcome(ws, batch, fault) ==
    IF fault \in {"client", "open"} THEN [sheet |-> ws, returned |-> FALSE]
    ELSE IF ~ws.some /\ fault = "header" THEN [sheet |-> Some(<<>>), returned |-> FALSE]
    ELSE
    LET rows == IF ws.some THEN ws.val ELSE <<Headers>>
        rows_to_append == RowsToAppend(batch, 1, ExistingUrls(rows))
    IN  IF fault = "read" THEN [sheet |-> Some(rows), returned |-> FALSE]
        ELSE IF rows_to_append = <<>> THEN [sheet |-> Some(rows), returned |-> TRUE]
        ELSE IF fault = "append" THEN [sheet |-> Some(rows), returned |-> FALSE]
        ELSE [sheet |-> Some(rows \o rows_to_append), returned |-> TRUE]

\* one call of store_articles
StoreCall(batch, fault) ==
    /\ st_calls < MaxCalls
    /\ LET r == StoreOutcome(sheet, batch, fault)
           before == IF sheet.some THEN Len(sheet.val) ELSE 0
       IN  /\ sheet' = r.sheet
           /\ st_last' = Some([batch |-> batch, fault |-> fault, returned |-> r.returned,
                               rows_before |-> before])
    /\ st_prev' = st_last
    /\ st_calls' = st_calls + 1
    /\ UNCHANGED <<scrapeInputs, loopState, error, driver, quits, page_gets, returned, pc,
                   kwVars, sumVars, exVars, mainVars>>

\* store_articles is not running
StoreIdle ==
    /\ sheet = None
    /\ st_prev = None
    /\ st_last = None
    /\ st_calls = MaxCalls

\* summarize_articles is not running
SummarizeIdle ==
    /\ sum_in = <<>>
    /\ sum_out = <<>>
    /\ sum_log = <<>>
    /\ sum_pc = "done"

\* generate_explainer_script is not running
ExplainerIdle ==
    /\ ex_key = FALSE
    /\ ex_creds = FALSE
    /\ ex_attempts = 0
    /\ ex_log = <<>>
    /\ ex_result = None
    /\ ex_api_calls = 0
    /\ ex_writes = 0
    /\ ex_returned = None
    /\ ex_pc = "done"

\* main is not running
MainIdle ==
    /\ main_creds = FALSE
    /\ main_log = <<>>
    /\ main_error = FALSE
    /\ main_pc = "idle"

\* ---------------------------------------------------------- scraper: inputs
\* all sequences over S of length at most n
RECURSIVE SeqsUpTo(_, _)
SeqsUpTo(S, n) ==
    IF n = 0 THEN {<<>>}
    ELSE LET shorter == SeqsUpTo(S, n - 1)
         IN  shorter \cup {Append(s, x) : s \in {t \in shorter : Len(t) = n - 1}, x \in S}

HeadUkWar == <<"U","K"," ","w","a","r">>
HeadIran == <<"I","r","a","n">>
HeadGolf == <<"G","o","l","f">>
HrefA == <<"/","a">>
HrefB == <<"/","b">>
SrcBBC == <<"B","B","C">>

Node(h, href, raises) ==
    [h_primary |-> h, h_fallback |-> None, href |-> href,
     src_div_span |-> Some(SrcBBC), src_span |-> None, raises |-> raises]

\* the nodes of a scrape run: sound ones, defective ones and raising ones
ScrapeNodes ==
    {Node(Some(h), Some(u), "none") : h \in {HeadUkWar, HeadIran}, u \in {HrefA, HrefB}}
    \cup {Node(Some(HeadUkWar), None, "none"), Node(Some(HeadGolf), Some(HrefA), "none"),
          Node(None, Some(HrefB), "none"),
          Node(Some(HeadGolf), Some(HrefB), "headline"),
          Node(Some(HeadUkWar), Some(HrefA), "url"),
          Node(Some(HeadIran), Some(HrefB), "keyword"),
          Node(Some(HeadIran), Some(HrefA), "source")}

ScrapeKeywordLists == {DefaultKeywords}

InitRun(nodeSeqs, kwLists, maxes, stypes) ==
    /\ articles \in nodeSeqs
    /\ keywords \in kwLists
    /\ max_articles \in maxes
    /\ source_type \in stypes
    /\ scrape_date = "2025-06-23"
    /\ index = 0
    /\ news_data = <<>>
    /\ seen_urls = {}
    /\ seen_headlines = {}
    /\ outcomes = <<>>
    /\ error = "none"
    /\ driver = "none"
    /\ quits = 0
    /\ page_gets = 0
    /\ returned = None
    /\ pc = "start"
    /\ KeywordsIdle
    /\ StoreIdle
    /\ SummarizeIdle
    /\ ExplainerIdle
    /\ MainIdle

Init ==
    InitRun(SeqsUpTo(ScrapeNodes, MaxNodes), ScrapeKeywordLists,
            (-1)..MaxArticles, {"coverage"})

Spec == Init /\ [][NextScrape]_vars

\* --------------------------------------------------- load_keywords: inputs
\* the characters of a keyword file found on disk
FileChars == {"a", " ", "\n"}
IoFaults == {"none", "makedirs", "open", "write", "read"}

\* the scraper is not running
ScrapeIdle ==
    /\ articles = <<>>
    /\ keywords = <<>>
    /\ max_articles = 0
    /\ source_type = "coverage"
    /\ scrape_date = "2025-06-23"
    /\ index = 0
    /\ news_data = <<>>
    /\ seen_urls = {}
    /\ seen_headlines = {}
    /\ outcomes = <<>>
    /\ error = "none"
    /\ driver = "none"
    /\ quits = 0
    /\ page_gets = 0
    /\ returned = None
    /\ pc = "done"

\* a call of load_keywords on any path, file and I/O fault; a file that
\* exists lies in a directory that exists
InitKeywords ==
    /\ fs_file \in {None} \cup {Some(t) : t \in SeqsUpTo(FileChars, MaxFileLen)}
    /\ fs_dir \in BOOLEAN
    /\ fs_file.some => fs_dir
    /\ path_in_config \in BOOLEAN
    /\ io_fault \in IoFaults
    /\ kw_existed = FALSE
    /\ kw_error = FALSE
    /\ kw_result = None
    /\ kw_pc = "start"
    /\ ScrapeIdle
    /\ StoreIdle
    /\ SummarizeIdle
    /\ ExplainerIdle
    /\ MainIdle

SpecKeywords == InitKeywords /\ [][NextKeywords]_vars

\* C9: load_keywords returns a list on every path; for a path that does not
\* exist and no I/O error it leaves a file holding the default terms and
\* returns the default list in its built-in order; on an I/O error it returns
\* the default list.
C9_LoadNeverFails ==
    kw_pc = "done"
    => /\ kw_result.some
       /\ (~kw_existed /\ ~kw_error)
             => /\ fs_file.some
                /\ ParseKeywords(fs_file.val) = DefaultKeywords
                /\ kw_result.val = DefaultKeywords
       /\ kw_error => kw_result.val = DefaultKeywords

\* a call on an absent path that created the file and returned the defaults
C9_Witness ==
    /\ kw_pc = "done"
    /\ ~kw_existed
    /\ ~kw_error
    /\ fs_file.some
    /\ Len(kw_result.val) = 8

\* --------------------------------------------------- scraper: the contract
\* the positions of the page's nodes
Positions == 1..Len(articles)
\* the number of loop iterations up to position n that appended a record
AppendedUpTo(n) == Cardinality({i \in 1..n : outcomes[i] = "appended"})
\* the loop ran to its end: no failure outside the loop
RanToEnd == pc = "done" /\ error = "none"

\* the node at position i passes extraction and classification on its own
PassesAlone(i) ==
    ProcessArticle(articles[i], keywords, source_type, scrape_date, {}, {}).kind = "appended"
HeadlineAt(i) == ExtractHeadline(articles[i])
UrlAt(i) == ResolveUrl(articles[i].href)
\* the node at position i passes extraction, classification and dedup: no
\* earlier node of the page has its headline or its url
Admissible(i) ==
    /\ PassesAlone(i)
    /\ \A j \in 1..(i - 1) : HeadlineAt(j) # HeadlineAt(i) /\ UrlAt(j) # UrlAt(i)

\* C1: no two records of the output share a headline, and no two share a url.
C1_DedupInvariant ==
    \A i, j \in 1..Len(news_data) :
        i # j => /\ news_data[i].headline # news_data[j].headline
                 /\ news_data[i].url # news_data[j].url

\* a run that appended two records and rejected a node for a duplicate url
C1_Witness ==
    /\ RanToEnd
    /\ Len(news_data) = 2
    /\ \E i \in 1..Len(outcomes) : outcomes[i] = "dup_url"

\* C3 as stated: whenever the page holds at least max_articles admissible
\* nodes, the finished run returns exactly max_articles records.
C3_AsStated ==
    (RanToEnd /\ max_articles >= 0
        /\ Cardinality({i \in Positions : Admissible(i)}) >= max_articles)
    => Len(news_data) = max_articles

\* C3 amended: the loop examines exactly the first min(max_articles, len)
\* nodes, one iteration each, and the output holds one record per examined
\* node that was appended; an admissible node beyond position max_articles
\* is never examined.
C3_ExaminesFirstNodes ==
    (RanToEnd /\ max_articles >= 0)
    => /\ Len(outcomes) = Min(max_articles, Len(articles))
       /\ Len(news_data) = AppendedUpTo(Len(outcomes))

\* a finished run that left an admissible node beyond max_articles unexamined
\* and returned fewer than max_articles records
C3_Witness ==
    /\ RanToEnd
    /\ max_articles >= 1
    /\ Len(news_data) < max_articles
    /\ \E i \in Positions : i > max_articles /\ Admissible(i)

\* C4: for max_articles >= 0 the output never holds more than max_articles
\* records (none for max_articles = 0).
C4_RecordCap == max_articles >= 0 => Len(news_data) <= max_articles

\* a finished run with max_articles = 0 over a page whose first node is
\* admissible
C4_Witness ==
    /\ RanToEnd
    /\ max_articles = 0
    /\ Len(articles) >= 1
    /\ Admissible(1)
    /\ news_data = <<>>

\* C5 as stated: a node with a headline, a resolvable url and a matching
\* keyword is rejected as a duplicate only if a record appended before it has
\* its headline or its url (nodes skipped earlier leave no trace in the sets).
C5_AsStated ==
    \A i \in 1..Len(outcomes) :
        (outcomes[i] \in {"dup_headline", "dup_url"} /\ PassesAlone(i))
        => \E k \in 1..AppendedUpTo(i - 1) :
              \/ news_data[k].headline = HeadlineAt(i).val
              \/ news_data[k].url = UrlAt(i).val

\* C8: an iteration that raises leaves the output as it was and the loop
\* running, and a run without a failure outside the loop examines every node
\* of articles[:max_articles].
C8_ExceptionSkipsNode ==
    /\ [][(pc = "loop" /\ Len(outcomes') = Len(outcomes) + 1
              /\ outcomes'[Len(outcomes')] = "raised")
          => (news_data' = news_data /\ pc' = "loop")]_vars
    /\ [](RanToEnd => Len(outcomes) = Len(Examined(articles, max_articles)))

\* a finished run whose second node raised between two appended records
C8_Witness ==
    /\ RanToEnd
    /\ outcomes = <<"appended", "raised", "appended">>
    /\ Len(news_data) = 2

\* the number of iterations so far that appended a record
Appended == Cardinality({i \in 1..Len(outcomes) : outcomes[i] = "appended"})

\* C15: scrape_ground_news returns a list on every path and releases the
\* browser. A run that ends has returned; when the WebDriver could not be
\* initialised it returned the empty list, opened no page and quit nothing;
\* once the driver was initialised driver.quit() was called exactly once by
\* the time the function returned (page failure, no nodes, a raising node or
\* a complete run) and the records accumulated so far were returned. The
\* browser is never quit while the run is still going, nor twice.
C15_ReturnsAndQuits ==
    /\ quits <= 1
    /\ pc \in {"start", "page", "loop"} => (~returned.some /\ quits = 0)
    /\ (pc = "done" /\ error = "driver")
       => (returned = Some(<<>>) /\ page_gets = 0 /\ quits = 0 /\ driver = "none")
    /\ (pc = "done" /\ error # "driver")
       => (/\ returned = Some(news_data)
           /\ Len(returned.val) = Appended
           /\ quits = 1
           /\ driver = "quit")

\* a run in which one node raised and another was appended has returned the
\* record and quit the browser once
C15_Witness ==
    /\ returned.some
    /\ Len(returned.val) = 1
    /\ outcomes = <<"raised", "appended">>
    /\ quits = 1
    /\ page_gets = 1

\* a run whose page load failed has quit the browser and returned no record
C15_PageFailureWitness ==
    /\ returned = Some(<<>>)
    /\ error = "page"
    /\ quits = 1

\* ------------------------------------------------- the keyword scan: inputs
KwUK == <<"U","K">>
KwWAR == <<"W","A","R">>
KwIsrael == <<"I","s","r","a","e","l">>
KwIran == <<"I","r","a","n">>
KeywordPool == {KwUK, KwWAR, KwIsrael, KwIran, <<>>}

HeadEscalates == <<"I","s","r","a","e","l"," ","a","n","d"," ","H","a","m","a","s"," ",
                   "w","a","r"," ","e","s","c","a","l","a","t","e","s">>
HeadUkVotes == <<"U","K"," ","p","a","r","l","i","a","m","e","n","t"," ",
                 "v","o","t","e","s">>
HeadIsraeliIran == <<"I","S","R","A","E","L","I"," ","s","t","r","i","k","e"," ",
                     "o","n"," ","I","r","a","n">>
HeadWarmUk == <<"W","a","r","m"," ","U","K">>
ClassifyHeadlines ==
    {HeadUkWar, HeadEscalates, HeadUkVotes, HeadIsraeliIran, HeadWarmUk, HeadGolf}

\* one sound node per run, every headline against every keyword list
InitClassify ==
    InitRun({<<Node(Some(h), Some(HrefA), "none")>> : h \in ClassifyHeadlines},
            SeqsUpTo(KeywordPool, MaxKeywords), {1}, {"coverage"})

SpecClassify == InitClassify /\ [][NextScrape]_vars

\* the headline holds a conflict term as a substring, in any letter case
HasConflictTerm(headline) == \E t \in ConflictTerms : Contains(Lower(headline), t)
\* the keyword scan ran for the node at position i
Scanned(i) == outcomes[i] \in {"appended", "no_keyword"}
\* the record the iteration at position i appended
RecordOf(i) == news_data[AppendedUpTo(i)]

\* C2 as stated: a headline holding a conflict term gets the category
\* "Israel-Hamas Conflict" under every keyword list.
C2_AsStated ==
    \A i \in 1..Len(outcomes) :
        (Scanned(i) /\ HasConflictTerm(HeadlineAt(i).val))
        => (outcomes[i] = "appended" /\ RecordOf(i).category = ConflictCategory)

\* C2 amended: when some keyword of the list is, lower-cased, a conflict term
\* and a substring of the lower-cased headline, the category is
\* "Israel-Hamas Conflict", whatever other keywords match and wherever they
\* stand in the list.
C2_ConflictKeywordWins ==
    \A i \in 1..Len(outcomes) :
        (Scanned(i)
            /\ \E k \in 1..Len(keywords) :
                  /\ Lower(keywords[k]) \in ConflictTerms
                  /\ Contains(Lower(HeadlineAt(i).val), Lower(keywords[k])))
        => (outcomes[i] = "appended" /\ RecordOf(i).category = ConflictCategory)

\* "UK war" under <<UK, WAR>>: another keyword matches first, the conflict
\* category is assigned
C2_Witness ==
    /\ RanToEnd
    /\ keywords = <<KwUK, KwWAR>>
    /\ Len(news_data) = 1
    /\ news_data[1].headline = HeadUkWar
    /\ news_data[1].category = ConflictCategory

\* the positions of the keywords found in the headline, in any letter case
MatchingPositions(i) ==
    {k \in 1..Len(keywords) : Contains(Lower(HeadlineAt(i).val), Lower(keywords[k]))}
\* some keyword found in the headline is, lower-cased, a conflict term
ConflictKeywordMatches(i) ==
    \E k \in MatchingPositions(i) : Lower(keywords[k]) \in ConflictTerms
\* the reference category: the conflict category, else the first keyword in
\* list order found in the headline, else none
ReferenceCategory(i) ==
    IF ConflictKeywordMatches(i) THEN Some(ConflictCategory)
    ELSE IF MatchingPositions(i) # {}
         THEN Some(keywords[CHOOSE k \in MatchingPositions(i) :
                               \A j \in MatchingPositions(i) : k <= j])
         ELSE None
\* the scan of position i produced the reference category, or no record
AgreesWithReference(i) ==
    IF ReferenceCategory(i).some
    THEN /\ outcomes[i] = "appended"
         /\ RecordOf(i).category = ReferenceCategory(i).val
         /\ KeywordScan(HeadlineAt(i).val, keywords) = Some(RecordOf(i).category)
    ELSE outcomes[i] = "no_keyword"

HrefArticleX == <<"/","a","r","t","i","c","l","e","/","x">>
HrefHttp == <<"h","t","t","p",":","/","/","a">>
HrefHttps == <<"h","t","t","p","s",":","/","/","b">>
HrefFtp == <<"f","t","p",":","/","/","c">>
HrefBare == <<"x">>
ExtractHrefs ==
    {None, Some(<<>>), Some(HrefArticleX), Some(HrefHttp), Some(HrefHttps),
     Some(HrefFtp), Some(HrefBare)}
\* a source element: absent, present and empty, present with text
SourceElems == {None, Some(<<>>), Some(SrcBBC), Some(<<" ","C","N","N"," ">>)}
ExtractNodes ==
    {[h_primary |-> hp, h_fallback |-> hf, href |-> u,
      src_div_span |-> a, src_span |-> b, raises |-> "none"] :
        hp \in {None, Some(KwUK)}, hf \in {None, Some(<<" ","U","K"," ","w","a","r"," ">>)},
        u \in ExtractHrefs, a \in SourceElems, b \in SourceElems}

\* one node per run, every shape of node under both source orders
InitExtract ==
    InitRun({<<n>> : n \in ExtractNodes}, {DefaultKeywords}, {1},
            {"coverage", "category"})

SpecExtract == InitExtract /\ [][NextScrape]_vars

\* C6: every record's url starts with "http": a relative href is stored as
\* base origin + href, an http href unchanged, and a node whose href is
\* missing, empty or neither produces no record.
C6_UrlAbsolute ==
    /\ \A k \in 1..Len(news_data) : StartsWith(news_data[k].url, Http)
    /\ \A i \in 1..Len(outcomes) :
          LET href == articles[i].href IN
          /\ (outcomes[i] = "appended" /\ StartsWith(href.val, Slash))
                => RecordOf(i).url = BaseUrl \o href.val
          /\ (outcomes[i] = "appended" /\ StartsWith(href.val, Http))
                => RecordOf(i).url = href.val
          /\ (~href.some \/ href.val = <<>>
                \/ (~StartsWith(href.val, Slash) /\ ~StartsWith(href.val, Http)))
                => outcomes[i] # "appended"

\* the relative href /article/x stored against the base origin
C6_Witness ==
    /\ RanToEnd
    /\ Len(news_data) = 1
    /\ articles[1].href = Some(HrefArticleX)
    /\ news_data[1].url = BaseUrl \o HrefArticleX

\* the selectors in the order source_type fixes
FirstSelector(i) ==
    IF source_type = "coverage" THEN articles[i].src_div_span ELSE articles[i].src_span
SecondSelector(i) ==
    IF source_type = "coverage" THEN articles[i].src_span ELSE articles[i].src_div_span
YieldsText(elem) == elem.some /\ Strip(elem.val) # <<>>

\* C7 as stated: the source is the text of the first selector, in the order
\* of source_type, that yields non-empty text, and "Unknown" when neither does.
C7_AsStated ==
    \A i \in 1..Len(outcomes) :
        outcomes[i] = "appended"
        => RecordOf(i).source =
              IF YieldsText(FirstSelector(i)) THEN Strip(FirstSelector(i).val)
              ELSE IF YieldsText(SecondSelector(i)) THEN Strip(SecondSelector(i).val)
              ELSE Unknown

\* -------------------------------------------------- store_articles: inputs
Article(headline, url, summary, timestamp, date) ==
    [headline |-> Entry(Some(headline)), source |-> Entry(Some("BBC")), url |-> url,
     category |-> Entry(Some("UK")), summary |-> summary, timestamp |-> timestamp,
     date |-> date]

\* a stored article as sheets.py documents it, one as the scraper and the
\* summarizer hand it over, and one without a url
StoreArticles ==
    { Article("h1", Entry(Some("u1")), Entry(Some("s1")), Entry(Some("t1")), Missing),
      Article("h2", Entry(Some("u2")), Entry(None), Missing, Entry(Some("2025-06-23"))),
      Article("h3", Missing, Entry(Some("s3")), Entry(Some("t3")), Missing) }

StoreFaults == {"none", "client", "header", "read", "append"}

\* the worksheet is absent, or holds the header row and rows with distinct urls
InitStore ==
    /\ sheet \in {None, Some(<<Headers>>),
                  Some(<<Headers, <<"h0", "BBC", "u1", "UK", "s0", "t0">> >>)}
    /\ st_prev = None
    /\ st_last = None
    /\ st_calls = 0
    /\ ScrapeIdle
    /\ KeywordsIdle
    /\ SummarizeIdle
    /\ ExplainerIdle
    /\ MainIdle

NextStore ==
    \E batch \in SeqsUpTo(StoreArticles, MaxBatch), fault \in StoreFaults :
        StoreCall(batch, fault)

SpecStore == InitStore /\ [][NextStore]_vars

\* the rows of the worksheet
SheetRows == IF sheet.some THEN sheet.val ELSE <<>>

\* C10 as stated: no two rows of the worksheet share a URL, and a call that
\* stores again the batch the call before it stored appends nothing and
\* returns True.
C10_AsStated ==
    /\ \A i, j \in 1..Len(SheetRows) : i # j => SheetRows[i][3] # SheetRows[j][3]
    /\ (st_prev.some /\ st_last.some
          /\ st_prev.val.returned /\ st_prev.val.fault = "none"
          /\ st_last.val.fault = "none" /\ st_last.val.batch = st_prev.val.batch)
       => (st_last.val.returned /\ Len(SheetRows) = st_last.val.rows_before)

\* ------------------------------------------------------ summarize_articles
MaxToSummarize == 2

\* Python truthiness of an optional text: None and '' are falsy
TruthyText(o) == o.some /\ o.val # ""

\* what the page fetch and the completion call of one article do
CallOutcomes == {"raised", "empty", "text"}

\* fetch_article_content(url): the text, or None when nothing was extracted
\* or anything raised
FetchArticleContent(outcome) == IF outcome = "text" THEN Some("body") ELSE None

\* summarize_article(text): the stripped completion, or None when the call raised
SummarizeArticle(outcome) ==
    IF outcome = "raised" THEN None
    ELSE IF outcome = "empty" THEN Some("")
    ELSE Some("sum")

\* {**article, 'summary': value}
WithSummary(article, value) == [article EXCEPT !.summary = Entry(value)]

\* a faulty variant: an article without content is skipped, not kept
MutSummarizeOne(article, fetched, summarized) ==
    IF ~article.headline.key \/ ~article.headline.val.some \/ ~article.url.key
    THEN [kind |-> "raised", append |-> <<WithSummary(article, None)>>]
    ELSE IF ~TruthyText(FetchArticleContent(fetched))
    THEN [kind |-> "no_content", append |-> <<>>]
    ELSE IF ~TruthyText(SummarizeArticle(summarized))
    THEN [kind |-> "no_summary", append |-> <<WithSummary(article, None)>>]
    ELSE [kind |-> "summarized",
          append |-> <<WithSummary(article, SummarizeArticle(summarized))>>]

\* one iteration of the loop of summarize_articles: what it did and the
\* records it appends. article['headline'][:50] and article['url'] raise on
\* a missing key or a None headline, and the handler appends the record.
SummarizeOne(article, fetched, summarized) ==
    IF ~article.headline.key \/ ~article.headline.val.some \/ ~article.url.key
    THEN [kind |-> "raised", append |-> <<WithSummary(article, None)>>]
    ELSE IF ~TruthyText(FetchArticleContent(fetched))
    THEN [kind |-> "no_content", append |-> <<WithSummary(article, None)>>]
    ELSE IF ~TruthyText(SummarizeArticle(summarized))
    THEN [kind |-> "no_summary", append |-> <<WithSummary(article, None)>>]
    ELSE [kind |-> "summarized",
          append |-> <<WithSummary(article, SummarizeArticle(summarized))>>]

\* one iteration of the loop over articles
SummarizeNext ==
    /\ sum_pc = "loop"
    /\ Len(sum_log) < Len(sum_in)
    /\ \E fetched \in CallOutcomes, summarized \in CallOutcomes :
          LET r == SummarizeOne(sum_in[Len(sum_log) + 1], fetched, summarized)
          IN  /\ sum_out' = sum_out \o r.append
              /\ sum_log' = Append(sum_log, r.kind)
    /\ UNCHANGED <<sum_in, sum_pc, scrapeInputs, loopState, error, driver, quits,
                   page_gets, returned, pc,
                   kwVars, storeVars, exVars, mainVars>>

\* the loop is exhausted: return summarized_articles
SummarizeReturn ==
    /\ sum_pc = "loop"
    /\ Len(sum_log) = Len(sum_in)
    /\ sum_pc' = "done"
    /\ UNCHANGED <<sum_in, sum_out, sum_log, scrapeInputs, loopState, error, driver,
                   quits, page_gets, returned, pc, kwVars, storeVars, exVars, mainVars>>

NextSummarize ==
    \/ SummarizeNext
    \/ SummarizeReturn

\* a scraped record as a dict: every field the scraper writes, no summary
Scraped(headline, url) == Article(headline, url, Missing, Missing, Entry(Some("2025-06-23")))

\* scraped records, one of them without a url key, one without a headline
\* key and one whose headline is None
SummarizeArticles ==
    { Scraped("h1", Entry(Some("u1"))), Scraped("h2", Entry(Some("u2"))),
      Scraped("h3", Missing),
      [Scraped("h4", Entry(Some("u4"))) EXCEPT !.headline = Missing],
      [Scraped("h5", Entry(Some("u5"))) EXCEPT !.headline = Entry(None)] }

InitSummarize ==
    /\ sum_in \in SeqsUpTo(SummarizeArticles, MaxToSummarize)
    /\ sum_out = <<>>
    /\ sum_log = <<>>
    /\ sum_pc = "loop"
    /\ ScrapeIdle
    /\ KeywordsIdle
    /\ StoreIdle
    /\ ExplainerIdle
    /\ MainIdle

SpecSummarize == InitSummarize /\ [][NextSummarize]_vars

\* the fields of a record other than the summary summarize_articles sets
CarriedFields == {"headline", "source", "url", "category", "timestamp", "date"}

\* C11: summarize_articles never drops or reorders a record. Every iteration
\* appends exactly one record, so the output has the input's length and
\* order; each output record keeps every field of its input record, and a
\* record whose summary was not produced (no content, no summary, or an
\* exception) carries summary = None.
C11_KeepsEveryRecord ==
    /\ Len(sum_out) = Len(sum_log)
    /\ sum_pc = "done" => Len(sum_out) = Len(sum_in)
    /\ \A i \in 1..Len(sum_out) :
          /\ i <= Len(sum_in)
          /\ \A f \in CarriedFields : sum_out[i][f] = sum_in[i][f]
          /\ sum_out[i].summary.key
          /\ sum_log[i] # "summarized" => sum_out[i].summary = Entry(None)
          /\ sum_log[i] = "summarized" => TruthyText(sum_out[i].summary.val)

\* a finished run of two different records, the first lost to an exception
\* and the second to a failed fetch or summary
C11_Witness ==
    /\ sum_pc = "done"
    /\ Len(sum_in) = 2
    /\ sum_in[1] # sum_in[2]
    /\ sum_log[1] = "raised"
    /\ sum_log[2] \in {"no_content", "no_summary"}
    /\ Len(sum_out) = 2

\* ------------------------------------------------ generate_explainer_script
\* stop_after_attempt(3)
StopAfterAttempt == 3

\* how one attempt of fetch_sheets_data ends: with the rows, or raising
\* HttpError, TimeoutError or another exception
AttemptOutcomes == {"ok", "http", "timeout", "other"}

\* a faulty variant: every exception is retried
MutRetryable(outcome) == outcome # "ok"

\* retry_if_exception_type((HttpError, TimeoutError))
Retryable(outcome) == outcome \in {"http", "timeout"}

\* the Timestamp cells pd.to_datetime parses
ValidDates == {"2025-06-23"}

\* the script ends returning value
ExplainerReturns(value) ==
    /\ ex_returned' = Some(value)
    /\ ex_pc' = "done"

\* the environment is read: a missing key or credentials file raises, and the
\* outer handler returns False
ExplainerStart ==
    /\ ex_pc = "start"
    /\ IF ex_key /\ ex_creds
       THEN ex_pc' = "fetch" /\ UNCHANGED ex_returned
       ELSE ExplainerReturns(FALSE)
    /\ UNCHANGED <<ex_key, ex_creds, ex_attempts, ex_log, ex_result, ex_api_calls,
                   ex_writes, scrapeInputs, loopState, error, driver, quits, page_gets,
                   returned, pc, kwVars, storeVars, sumVars, mainVars>>

\* one attempt of fetch_sheets_data under @retry: a result is returned, an
\* HttpError or TimeoutError is retried until the third attempt, after which
\* RetryError is raised, any other exception is raised at once; the caller's
\* handler turns a raised exception into return False
FetchAttempt ==
    /\ ex_pc = "fetch"
    /\ \E outcome \in AttemptOutcomes :
          /\ outcome = "ok" => sheet.some
          /\ ex_log' = Append(ex_log, outcome)
          /\ IF outcome = "ok"
             THEN /\ ex_result' = Some(sheet.val)
                  /\ ex_pc' = "data"
                  /\ UNCHANGED ex_returned
             ELSE IF Retryable(outcome) /\ ex_attempts + 1 < StopAfterAttempt
             THEN UNCHANGED <<ex_result, ex_pc, ex_returned>>
             ELSE ExplainerReturns(FALSE) /\ UNCHANGED ex_result
    /\ ex_attempts' = ex_attempts + 1
    /\ UNCHANGED <<ex_key, ex_creds, ex_api_calls, ex_writes, scrapeInputs, loopState,
                   error, driver, quits, page_gets, returned, pc, kwVars, storeVars,
                   sumVars, mainVars>>

\* the rows are loaded and the dates validated: no data row, or no row with
\* a valid Timestamp, returns False
Analyse ==
    /\ ex_pc = "data"
    /\ LET data == ex_result.val
       IN  IF Len(data) <= 1 \/ \A i \in 2..Len(data) : data[i][6] \notin ValidDates
           THEN ExplainerReturns(FALSE)
           ELSE ex_pc' = "generate" /\ UNCHANGED ex_returned
    /\ UNCHANGED <<ex_key, ex_creds, ex_attempts, ex_log, ex_result, ex_api_calls,
                   ex_writes, scrapeInputs, loopState, error, driver, quits, page_gets,
                   returned, pc, kwVars, storeVars, sumVars, mainVars>>

\* client.chat.completions.create(...): the script, or an exception
Generate ==
    /\ ex_pc = "generate"
    /\ ex_api_calls' = ex_api_calls + 1
    /\ \E raised \in BOOLEAN :
          IF raised THEN ExplainerReturns(FALSE)
          ELSE ex_pc' = "write" /\ UNCHANGED ex_returned
    /\ UNCHANGED <<ex_key, ex_creds, ex_attempts, ex_log, ex_result, ex_writes,
                   scrapeInputs, loopState, error, driver, quits, page_gets, returned,
                   pc, kwVars, storeVars, sumVars, mainVars>>

\* explainer_script.txt is written, or open raises
WriteScript ==
    /\ ex_pc = "write"
    /\ \E raised \in BOOLEAN :
          IF raised THEN ExplainerReturns(FALSE) /\ UNCHANGED ex_writes
          ELSE ExplainerReturns(TRUE) /\ ex_writes' = ex_writes + 1
    /\ UNCHANGED <<ex_key, ex_creds, ex_attempts, ex_log, ex_result, ex_api_calls,
                   scrapeInputs, loopState, error, driver, quits, page_gets, returned,
                   pc, kwVars, storeVars, sumVars, mainVars>>

NextExplainer ==
    \/ ExplainerStart
    \/ FetchAttempt
    \/ Analyse
    \/ Generate
    \/ WriteScript

\* the worksheets the script may find
ExplainerSheets ==
    {None, Some(<<Headers>>),
     Some(<<Headers, <<"h0", "BBC", "u0", "UK", "s0", "2025-06-23">> >>),
     Some(<<Headers, <<"h1", "BBC", "u1", "UK", "", "">> >>),
     Some(<<Headers, <<"h1", "BBC", "u1", "UK", "", "">>,
                     <<"h0", "BBC", "u0", "UK", "s0", "2025-06-23">> >>)}

InitExplainer ==
    /\ ex_key \in BOOLEAN
    /\ ex_creds \in BOOLEAN
    /\ ex_attempts = 0
    /\ ex_log = <<>>
    /\ ex_result = None
    /\ ex_api_calls = 0
    /\ ex_writes = 0
    /\ ex_returned = None
    /\ ex_pc = "start"
    /\ sheet \in ExplainerSheets
    /\ st_prev = None
    /\ st_last = None
    /\ st_calls = MaxCalls
    /\ ScrapeIdle
    /\ KeywordsIdle
    /\ SummarizeIdle
    /\ MainIdle

SpecExplainer == InitExplainer /\ [][NextExplainer]_vars

\* fetch_sheets_data has ended without a result
FetchGaveUp == ex_log # <<>> /\ ex_log[Len(ex_log)] # "ok" /\ ex_pc # "fetch"

\* C16: fetch_sheets_data terminates after at most 3 attempts. Every attempt
\* but the last raised HttpError or TimeoutError; a successful attempt and an
\* attempt raising any other exception are the last one; while the fetch is
\* still going fewer than 3 attempts were made; and when it ended without a
\* result generate_explainer_script returned False, having made no call to
\* the text-generation API and not written explainer_script.txt.
C16_BoundedRetry ==
    /\ ex_attempts = Len(ex_log)
    /\ ex_attempts <= StopAfterAttempt
    /\ \A i \in 1..(Len(ex_log) - 1) : ex_log[i] \in {"http", "timeout"}
    /\ ex_pc = "fetch" => ex_attempts < StopAfterAttempt
    /\ (ex_log # <<>> /\ ex_log[Len(ex_log)] \in {"ok", "other"}) => ex_pc # "fetch"
    /\ (ex_log # <<>> /\ ex_log[Len(ex_log)] = "ok") => ex_result.some
    /\ FetchGaveUp
       => (ex_returned = Some(FALSE) /\ ~ex_result.some /\ ex_api_calls = 0
           /\ ex_writes = 0)

\* three attempts raised HttpError or TimeoutError and the script returned False
C16_Witness ==
    /\ ex_log = <<"http", "timeout", "http">>
    /\ ex_returned = Some(FALSE)
    /\ ex_api_calls = 0

\* a result on the second attempt, and the script written
C16_SuccessWitness ==
    /\ ex_log = <<"timeout", "ok">>
    /\ ex_returned = Some(TRUE)
    /\ ex_writes = 1

\* --------------------------------------------------------------------- main
MaxPageNodes == 2

\* max_articles=50
MainMaxArticles == 50

\* the stages of main, in the order of its code
Stages == <<"load", "scrape", "summarize", "store", "explain">>

\* a faulty variant: an empty result does not end the run
MutIsEmpty(list) == FALSE

\* `if not keywords`, `if not articles`, `if not summarized_articles`
IsEmpty(list) == list = <<>>

\* a string of the scraper as the text the later stages handle
RECURSIVE Text(_)
Text(string) == IF string = <<>> THEN "" ELSE string[1] \o Text(Tail(string))

\* a record of news_data as the dict the later stages read
AsDict(record) ==
    [headline |-> Entry(Some(Text(record.headline))),
     source |-> Entry(Some(Text(record.source))),
     url |-> Entry(Some(Text(record.url))),
     category |-> Entry(Some(Text(record.category))),
     summary |-> Missing,
     timestamp |-> Missing,
     date |-> Entry(Some(record.date))]

\* main returns
MainReturns == main_pc' = "done"

\* main invokes the next stage
MainInvokes(stage) ==
    /\ main_pc' = stage
    /\ main_log' = Append(main_log, stage)

\* main is entered and calls load_keywords('config/keywords.txt')
MainStart ==
    /\ main_pc = "start"
    /\ MainInvokes("load")
    /\ kw_pc' = "start"
    /\ UNCHANGED <<fs_file, fs_dir, path_in_config, io_fault, kw_existed, kw_error,
                   kw_result, scrapeInputs, loopState, error, driver, quits, page_gets,
                   returned, pc, storeVars, sumVars, exVars, main_creds, main_error>>

\* load_keywords has returned: no keywords ends the run, otherwise
\* scrape_ground_news(keywords, max_articles=50, source_type='coverage')
AfterLoad ==
    /\ main_pc = "load"
    /\ kw_pc = "done"
    /\ IF IsEmpty(kw_result.val)
       THEN /\ MainReturns
            /\ UNCHANGED <<keywords, max_articles, source_type, pc, main_log>>
       ELSE /\ MainInvokes("scrape")
            /\ keywords' = kw_result.val
            /\ max_articles' = MainMaxArticles
            /\ source_type' = "coverage"
            /\ pc' = "start"
    /\ UNCHANGED <<scrape_date, articles, loopState, error, driver, quits, page_gets,
                   returned, kwVars, storeVars, sumVars, exVars, main_creds, main_error>>

\* scrape_ground_news has returned: no articles ends the run, otherwise
\* summarize_articles(articles)
AfterScrape ==
    /\ main_pc = "scrape"
    /\ pc = "done"
    /\ IF IsEmpty(returned.val)
       THEN /\ MainReturns
            /\ UNCHANGED <<sum_in, sum_pc, main_log>>
       ELSE /\ MainInvokes("summarize")
            /\ sum_in' = [i \in 1..Len(returned.val) |-> AsDict(returned.val[i])]
            /\ sum_pc' = "loop"
    /\ UNCHANGED <<scrapeInputs, loopState, error, driver, quits, page_gets, returned,
                   pc, kwVars, storeVars, sum_out, sum_log, exVars, main_creds,
                   main_error>>

\* summarize_articles has returned: no summarized article or no credentials
\* file ends the run, otherwise store_articles(summarized_articles, ...)
AfterSummarize ==
    /\ main_pc = "summarize"
    /\ sum_pc = "done"
    /\ IF IsEmpty(sum_out) \/ ~main_creds
       THEN MainReturns /\ UNCHANGED main_log
       ELSE MainInvokes("store")
    /\ UNCHANGED <<scrapeInputs, loopState, error, driver, quits, page_gets, returned,
                   pc, kwVars, storeVars, sumVars, exVars, main_creds, main_error>>

\* the call store_articles(summarized_articles, credentials_path, spreadsheet_name)
MainStore ==
    /\ main_pc = "store"
    /\ ~st_last.some
    /\ \E fault \in {"none", "client", "header", "read", "append"} :
          StoreCall(sum_out, fault)

\* store_articles has returned: False ends the run, otherwise
\* generate_explainer_script(), which finds the key the import of summarizer
\* required and the credentials file main has just tested
AfterStore ==
    /\ main_pc = "store"
    /\ st_last.some
    /\ IF ~st_last.val.returned
       THEN /\ MainReturns
            /\ UNCHANGED <<ex_key, ex_creds, ex_pc, main_log>>
       ELSE /\ MainInvokes("explain")
            /\ ex_key' = TRUE
            /\ ex_creds' = main_creds
            /\ ex_pc' = "start"
    /\ UNCHANGED <<scrapeInputs, loopState, error, driver, quits, page_gets, returned,
                   pc, kwVars, storeVars, sumVars, ex_attempts, ex_log, ex_result,
                   ex_api_calls, ex_writes, ex_returned, main_creds, main_error>>

\* generate_explainer_script has returned: the results are printed, main returns
AfterExplain ==
    /\ main_pc = "explain"
    /\ ex_pc = "done"
    /\ MainReturns
    /\ UNCHANGED <<scrapeInputs, loopState, error, driver, quits, page_gets, returned,
                   pc, kwVars, storeVars, sumVars, exVars, main_creds, main_log,
                   main_error>>

\* the stage main has just invoked raises an exception of its own making;
\* `except Exception` of main logs it and main returns
MainCatches ==
    /\ \/ main_pc = "load" /\ kw_pc = "start"
       \/ main_pc = "scrape" /\ pc = "start"
       \/ main_pc = "summarize" /\ sum_log = <<>> /\ sum_pc = "loop"
       \/ main_pc = "store" /\ ~st_last.some
       \/ main_pc = "explain" /\ ex_pc = "start"
    /\ main_error' = TRUE
    /\ MainReturns
    /\ UNCHANGED <<scrapeInputs, loopState, error, driver, quits, page_gets, returned,
                   pc, kwVars, storeVars, sumVars, exVars, main_creds, main_log>>

NextMain ==
    \/ MainStart
    \/ main_pc = "load" /\ NextKeywords
    \/ AfterLoad
    \/ main_pc = "scrape" /\ NextScrape
    \/ AfterScrape
    \/ main_pc = "summarize" /\ NextSummarize
    \/ AfterSummarize
    \/ MainStore
    \/ AfterStore
    \/ main_pc = "explain" /\ NextExplainer
    \/ AfterExplain
    \/ MainCatches

\* the nodes of the landing page: two with a keyword, one without
PageNodes ==
    {Node(Some(HeadUkWar), Some(HrefA), "none"), Node(Some(HeadIran), Some(HrefB), "none"),
     Node(Some(HeadGolf), Some(HrefA), "none")}

\* a run of main: the keyword file is absent or empty, the page holds any
\* nodes, the credentials file exists or not, the worksheet exists or not
InitMain ==
    /\ main_pc = "start"
    /\ main_log = <<>>
    /\ main_error = FALSE
    /\ main_creds \in BOOLEAN
    /\ fs_file \in {None, Some(<<>>)}
    /\ fs_dir = TRUE
    /\ path_in_config = TRUE
    /\ io_fault \in {"none", "read"}
    /\ kw_existed = FALSE
    /\ kw_error = FALSE
    /\ kw_result = None
    /\ kw_pc = "done"
    /\ articles \in SeqsUpTo(PageNodes, MaxPageNodes)
    /\ keywords = <<>>
    /\ max_articles = 0
    /\ source_type = "coverage"
    /\ scrape_date = "2025-06-23"
    /\ index = 0
    /\ news_data = <<>>
    /\ seen_urls = {}
    /\ seen_headlines = {}
    /\ outcomes = <<>>
    /\ error = "none"
    /\ driver = "none"
    /\ quits = 0
    /\ page_gets = 0
    /\ returned = None
    /\ pc = "done"
    /\ sheet \in {None, Some(<<Headers>>)}
    /\ st_prev = None
    /\ st_last = None
    /\ st_calls = 0
    /\ SummarizeIdle
    /\ ExplainerIdle

SpecMain == InitMain /\ [][NextMain]_vars

\* the number of stages main has invoked
Invoked == Len(main_log)

\* C14: main runs its stages in the fixed order load keywords, scrape,
\* summarize, store, generate explainer, and a stage is started only if every
\* earlier stage succeeded with a non-empty result: after an empty keyword
\* list, an empty scrape result, missing credentials or a False result of
\* store_articles no later stage is invoked and none has acted; a run that
\* ended early without an exception ended for one of these reasons; an
\* exception raised by a stage is caught and main returns.
C14_StagesInOrder ==
    /\ Invoked <= Len(Stages)
    /\ \A i \in 1..Invoked : main_log[i] = Stages[i]
    /\ main_pc \notin {"start", "done"} => (Invoked > 0 /\ main_pc = main_log[Invoked])
    /\ Invoked >= 2 => (kw_result.some /\ kw_result.val # <<>>)
    /\ Invoked >= 3 => (returned.some /\ returned.val # <<>>)
    /\ Invoked >= 4 => (sum_pc = "done" /\ sum_out # <<>> /\ main_creds)
    /\ Invoked >= 5 => (st_last.some /\ st_last.val.returned)
    /\ Invoked < 2 => (pc = "done" /\ ~returned.some /\ driver = "none" /\ page_gets = 0)
    /\ Invoked < 3 => (sum_log = <<>> /\ sum_out = <<>>)
    /\ Invoked < 4 => (~st_last.some /\ st_calls = 0)
    /\ Invoked < 5 => (ex_attempts = 0 /\ ex_api_calls = 0 /\ ~ex_returned.some)
    /\ (main_pc = "done" /\ ~main_error /\ Invoked < 5)
       => \/ Invoked = 1 /\ kw_result = Some(<<>>)
          \/ Invoked = 2 /\ returned = Some(<<>>)
          \/ Invoked = 3 /\ sum_pc = "done" /\ ~main_creds
          \/ Invoked = 4 /\ st_last.some /\ ~st_last.val.returned
    /\ main_error => main_pc = "done"

\* a run that went through all five stages and returned
C14_Witness ==
    /\ main_pc = "done"
    /\ main_log = Stages
    /\ ~main_error
    /\ ex_returned.some

\* a run ended by a False result of store_articles
C14_StoreFailedWitness ==
    /\ main_pc = "done"
    /\ Invoked = 4
    /\ st_last.some
    /\ ~st_last.val.returned

\* a run ended by an exception of the summarizer stage
C14_ExceptionWitness ==
    /\ main_pc = "done"
    /\ main_error
    /\ Invoked = 3

\* main's call of store_articles appended the rows of its batch
StoredByMain ==
    /\ main_pc \in {"store", "explain", "done"}
    /\ st_last.some
    /\ st_last.val.returned
    /\ st_last.val.fault = "none"

\* the row appended for the record at position i of main's batch: the
\* worksheet held the header row only
StoredRow(i) == SheetRows[1 + i]

\* the cells of StoredRow(i) other than Timestamp hold the record's fields
FieldsInOrder(i) ==
    LET record == st_last.val.batch[i]
    IN  /\ Len(StoredRow(i)) = 6
        /\ StoredRow(i)[1] = Cell(record.headline.val)
        /\ StoredRow(i)[2] = Cell(record.source.val)
        /\ StoredRow(i)[3] = Cell(record.url.val)
        /\ StoredRow(i)[4] = Cell(record.category.val)
        /\ StoredRow(i)[5] = Cell(record.summary.val)

\* C12 as stated: every row appended for a record that was scraped and
\* summarized, as main does, has six cells in the order Headline, Source,
\* URL, Category, Summary, Timestamp taken from the record's fields, and the
\* Timestamp cell holds the date stamped on the record at scrape time.
C12_AsStated ==
    StoredByMain
    => /\ Len(SheetRows) = 1 + Len(st_last.val.batch)
       /\ \A i \in 1..Len(st_last.val.batch) :
             /\ FieldsInOrder(i)
             /\ StoredRow(i)[6] = scrape_date

\* what the code does instead: the five other cells hold the record's fields
\* and the Timestamp cell of every stored pipeline record is empty
C12_TimestampLeftEmpty ==
    StoredByMain
    => /\ Len(SheetRows) = 1 + Len(st_last.val.batch)
       /\ \A i \in 1..Len(st_last.val.batch) :
             /\ FieldsInOrder(i)
             /\ st_last.val.batch[i].date = Entry(Some(scrape_date))
             /\ StoredRow(i)[6] = ""

====
